---- MODULE Spec2Model ----
(***************************************************************************)
(* Model of the Transformer core of Beave_Transformer:                     *)
(*   src/beaver/model/embeddings.py   (Embedding, positional table)        *)
(*   src/beaver/model/transformer.py  (MultiHeadedAttention, DecoderLayer, *)
(*                                     Decoder)                            *)
(*                                                                         *)
(* Tensors are records [shape |-> <<...>>, data |-> nested sequences].     *)
(* Hidden vectors are symbolic terms: a dense map, an attention, a layer   *)
(* norm is an uninterpreted function of exactly the values it reads, so    *)
(* two hidden vectors are equal in the model iff the code computes them    *)
(* from the same inputs through the same weights.  Shapes, masks, slices,  *)
(* broadcasting rules and the exceptions they raise are computed as        *)
(* PyTorch computes them.  Dropout is in inference mode (identity).        *)
(***************************************************************************)
EXTENDS Integers, Sequences, FiniteSets, TLC

VARIABLES att, call, ret, heap, sess

vars == <<att, call, ret, heap, sess>>

(***************************************************************************)
(* Bounds of the model.                                                    *)
(***************************************************************************)
MaxTgtLen == 4      \* longest ordinary target sequence fed to the decoder
MaxBatch == 2       \* largest batch size
NumLayers == 2      \* num_layers of the modelled Decoder
SrcLen == 2         \* length of the encoder output
MaxHeads == 2       \* largest head_count given to MultiHeadedAttention
MaxDim == 3         \* largest model_dim given to MultiHeadedAttention
MaxQLen == 2        \* longest query given to a lone attention call
MaxKLen == 3        \* longest memory given to a lone attention call
MaxSteps == 3       \* cap on the single-token steps of one generation

(***************************************************************************)
(* Program constants.                                                      *)
(***************************************************************************)
MaskTableSize == 1000    \* transformer.py:99  torch.ones(1000, 1000)
PeMaxLen == 5000         \* embeddings.py:16   max_len=5000
ByteModulus == 256       \* uint8 arithmetic of the .byte() mask buffer

None == [none |-> TRUE]

Min(a, b) == IF a < b THEN a ELSE b

Max(a, b) == IF a < b THEN b ELSE a

(***************************************************************************)
(* Results of a call: a returned value or the Python exception raised,     *)
(* named by its type and the expression that raises it.                    *)
(***************************************************************************)
Raise(e) == [err |-> e]

Ok(v) == [err |-> "none", val |-> v]

\* Statement order: Then([v \in {e} |-> body]) is "v = e; body": e is
\* computed once and body reads its value.
Then(f) == CHOOSE out \in {g[CHOOSE v \in DOMAIN g : TRUE] : g \in {f}} : TRUE

(***************************************************************************)
(* embeddings.py                                                           *)
(***************************************************************************)
\* self.pe[lo:hi] for 0 <= lo: the row indices of the slice (Python clamps
\* a slice to the table, it never raises).
PeSlice(lo, hi) ==
    LET a == Min(lo, PeMaxLen)
        b == Min(hi, PeMaxLen)
    IN  [n \in 1..Max(b - a, 0) |-> a + n - 1]

\* Broadcasting of two sizes of one dimension: equal sizes, or one of them
\* is 1 (and then the result takes the other size, also when that is 0).
Broadcastable(m, n) == m = n \/ m = 1 \/ n = 1

BroadcastSize(m, n) == IF m = 1 THEN n ELSE m

\* index into a dimension of size m that was broadcast
BIdx(m, i) == IF m = 1 THEN 1 ELSE i

\* Embedding.forward(x, timestep): x is [shape |-> <<B, L>>, data |-> tokens]
EmbeddingForward(x, timestep, dim) ==
    Then([pe \in {PeSlice(timestep, timestep + x.shape[2])} |->
        LET B == x.shape[1]
            L == x.shape[2]
            s == Len(pe)
        IN  IF ~Broadcastable(L, s)
            THEN Raise("RuntimeError: embedding + pe slice")
            ELSE Ok([shape |-> <<B, BroadcastSize(L, s), dim>>,
                     data |-> [b \in 1..B |-> [p \in 1..BroadcastSize(L, s) |->
                         [tok |-> x.data[b][BIdx(L, p)],
                          pos |-> pe[BIdx(s, p)]]]]])])

(***************************************************************************)
(* transformer.py: MultiHeadedAttention                                    *)
(***************************************************************************)
\* MultiHeadedAttention.__init__: head_count = 0 raises at the division;
\* nothing else is checked.
MHAInit(head_count, model_dim) ==
    IF head_count = 0
    THEN Raise("ZeroDivisionError: model_dim // head_count")
    ELSE Ok([head_count |-> head_count,
             dim_per_head |-> model_dim \div head_count,
             model_dim |-> model_dim])

\* split_head: x.view(B, -1, h, d) of a B x L x D tensor.  The length the
\* view infers for the -1, or -1 when the view raises.
SplitHeadLen(a, L, D) ==
    LET hd == a.head_count * a.dim_per_head
    IN  IF hd = 0 \/ (L * D) % hd # 0 THEN 0 - 1 ELSE (L * D) \div hd

\* One output of a dense map (nn.Linear) or of one chunk of it.
Proj(part, x) == [part |-> part, of |-> x]

\* scores.masked_fill(mask, -1e20): the score of a masked key becomes the
\* sentinel, the others keep their finite dot product.
MaskedFill(maskRow) ==
    [k \in DOMAIN maskRow |-> IF maskRow[k] THEN "-1e20" ELSE "finite"]

\* softmax over the key axis: exp(s - max) / sum.  With a finite maximum
\* exp(-1e20 - max) underflows to exactly 0.0; when every score is the
\* sentinel, s - max = 0 for every key and each weight is 1/n.  The keys
\* with a non-zero weight:
SoftmaxSupport(scoreRow) ==
    IF \A k \in DOMAIN scoreRow : scoreRow[k] = "-1e20"
    THEN DOMAIN scoreRow
    ELSE {k \in DOMAIN scoreRow : scoreRow[k] = "finite"}

\* One key/value pair of a context.  Both halves are chunks of one dense
\* map; when they are chunks of the same memory row the pair is written
\* once (the encoding is one-to-one).
KV(kk, vv) ==
    IF kk.of = vv.of /\ vv.part = "v" THEN [kv |-> kk.of] ELSE [k |-> kk, v |-> vv]

\* torch.matmul(weights, v) for one query: the pairs that enter the sum
\* with a non-zero weight, in key order.
Context(support, ks, vs) ==
    LET idx == SelectSeq([k \in 1..Len(ks) |-> k], LAMBDA k : k \in support)
    IN  [n \in 1..Len(idx) |-> KV(ks[idx[n]], vs[idx[n]])]

\* mask.unsqueeze(1).expand_as(scores): a dimension expands only from 1.
Expandable(m, n) == m = n \/ m = 1

\* Lines 166-181 on the projected q, k, v of a validly shaped instance:
\* scores, mask, softmax, weighted sum, final_linear.  query, ks, vs are
\* the data of B x L x D tensors; the batch axis broadcasts in matmul.
Attend(id, path, query, ks, vs, mask) ==
    [b \in 1..BroadcastSize(Len(query), Len(ks)) |->
        LET qb == query[BIdx(Len(query), b)]
            kb == ks[BIdx(Len(ks), b)]
            vb == vs[BIdx(Len(vs), b)]
        IN  [q \in 1..Len(qb) |->
                LET row == [k \in 1..Len(kb) |->
                        mask.data[BIdx(mask.shape[1], b)][BIdx(mask.shape[2], q)]
                                 [BIdx(mask.shape[3], k)]]
                IN  [att |-> id, path |-> path, in |-> qb[q],
                     ctx |-> Context(SoftmaxSupport(MaskedFill(row)), kb, vb)]]]

\* MultiHeadedAttention.forward(query, memory, mask)
MHAForward(a, id, query, memory, mask) ==
    LET mem == IF memory = None THEN query ELSE memory
        path == IF memory = None THEN "linear_qkv" ELSE "linear_q,linear_kv"
        B == query.shape[1]
        D == a.model_dim
        Lq == SplitHeadLen(a, query.shape[2], D)
        Lk == SplitHeadLen(a, mem.shape[2], D)
    IN  IF query.shape[3] # D \/ mem.shape[3] # D
        THEN Raise("RuntimeError: nn.Linear in_features")
        ELSE IF Lq < 0 \/ Lk < 0
        THEN Raise("RuntimeError: split_head view")
        ELSE IF ~Broadcastable(B, mem.shape[1])
        THEN Raise("RuntimeError: torch.matmul(q, k) batch")
        ELSE IF mask = None
        THEN Raise("AttributeError: mask.unsqueeze")
        ELSE IF ~(Expandable(mask.shape[1], BroadcastSize(B, mem.shape[1]))
                  /\ Expandable(mask.shape[2], Lq)
                  /\ Expandable(mask.shape[3], Lk))
        THEN Raise("RuntimeError: mask.expand_as(scores)")
        ELSE IF a.head_count * a.dim_per_head # D
        THEN Raise("RuntimeError: final_linear in_features")
        ELSE Then([ks \in {[b \in 1..mem.shape[1] |->
                              [k \in 1..Lk |-> Proj("k", mem.data[b][k])]]} |->
             Then([vs \in {[b \in 1..mem.shape[1] |->
                              [k \in 1..Lk |-> Proj("v", mem.data[b][k])]]} |->
                 Ok([shape |-> <<BroadcastSize(B, mem.shape[1]), Lq, D>>,
                     data |-> Attend(id, path, query.data, ks, vs, mask)])])])

(***************************************************************************)
(* transformer.py: FeedForward, layer norm of a residual                   *)
(***************************************************************************)
\* FeedForward.forward, row by row
FeedForward(id, x) ==
    [shape |-> x.shape,
     data |-> [b \in 1..Len(x.data) |-> [p \in 1..Len(x.data[b]) |->
                  [ff |-> id, in |-> x.data[b][p]]]]]

\* self.norm[n](x + self.dropout(y)) for one row.  A sub-block's output
\* names the row it was computed from ("in"); when that row is x itself the
\* sum is written without repeating x (the encoding is one-to-one).
ResidualNormRow(n, x, y) ==
    IF y.in = x THEN [norm |-> n, y |-> y] ELSE [norm |-> n, x |-> x, y |-> y]

ResidualNorm(n, x, y) ==
    [shape |-> x.shape,
     data |-> [b \in 1..Len(x.data) |-> [p \in 1..Len(x.data[b]) |->
                  ResidualNormRow(n, x.data[b][p], y.data[b][p])]]]

(***************************************************************************)
(* transformer.py: DecoderLayer, Decoder                                   *)
(***************************************************************************)
\* The modelled Decoder: Decoder(NumLayers, num_heads, hidden_size, ...),
\* every layer's attention built by MultiHeadedAttention.__init__.
DecoderConfig == [num_heads |-> 2, hidden_size |-> 4]

DecoderAtt == MHAInit(DecoderConfig.num_heads, DecoderConfig.hidden_size).val

\* A result together with what the call left in the tensor "previous" that
\* was passed to it (the caller's object, or a view of it).
Leaving(result, previous) == result @@ [previous |-> previous]

\* TorchCat with the bug of writing the new rows into the last rows of
\* "previous" before concatenating.
TorchCatInPlace(previous, x) ==
    IF previous.shape[1] # x.shape[1] \/ previous.shape[3] # x.shape[3]
    THEN Leaving(Raise("RuntimeError: torch.cat((previous, x), dim=1)"), previous)
    ELSE Leaving(
           Ok([shape |-> <<x.shape[1], previous.shape[2] + x.shape[2], x.shape[3]>>,
               data |-> [b \in 1..x.shape[1] |-> previous.data[b] \o x.data[b]]]),
           [previous EXCEPT !.data = [b \in 1..Len(@) |->
               SubSeq(@[b], 1, Len(@[b]) - Len(x.data[b])) \o x.data[b]]])

\* torch.cat((previous, x), dim=1): a new tensor, the operands are only
\* read; the batch and feature sizes must agree.
TorchCat(previous, x) ==
    IF previous.shape[1] # x.shape[1] \/ previous.shape[3] # x.shape[3]
    THEN Leaving(Raise("RuntimeError: torch.cat((previous, x), dim=1)"), previous)
    ELSE Leaving(
           Ok([shape |-> <<x.shape[1], previous.shape[2] + x.shape[2], x.shape[3]>>,
               data |-> [b \in 1..x.shape[1] |-> previous.data[b] \o x.data[b]]]),
           previous)

\* DecoderLayer.forward of layer i (0-based); returns x and all_input
DecoderLayerForward(i, x, enc_out, src_mask, tgt_mask, previous) ==
    Then([cat \in {IF previous = None THEN Leaving(Ok(x), None)
                   ELSE TorchCat(previous, x)} |->
    IF cat.err # "none" THEN cat ELSE
    Then([y1 \in {MHAForward(DecoderAtt, <<i, "self_attn">>, x, cat.val,
                             tgt_mask)} |->
    IF y1.err # "none" THEN Leaving(y1, cat.previous) ELSE
    Then([x1 \in {ResidualNorm(<<i, 0>>, x, y1.val)} |->
    Then([y2 \in {MHAForward(DecoderAtt, <<i, "src_attn">>, x1, enc_out,
                             src_mask)} |->
    IF y2.err # "none" THEN Leaving(y2, cat.previous) ELSE
    Then([x2 \in {ResidualNorm(<<i, 1>>, x1, y2.val)} |->
    Then([y3 \in {FeedForward(i, x2)} |->
    Then([x3 \in {ResidualNorm(<<i, 2>>, x2, y3)} |->
        Leaving(Ok([x |-> x3, all_input |-> cat.val]), cat.previous)
    ])])])])])])])

\* UpperTriangle with the bug diagonal=0
UpperTriangleWithDiagonal(q, k) == IF k - q >= 0 THEN 1 ELSE 0

\* torch.triu(torch.ones(1000, 1000), diagonal=1).byte() at row q, column k
\* (0-based): 1 strictly above the diagonal.
UpperTriangle(q, k) == IF k - q >= 1 THEN 1 ELSE 0

\* pad.unsqueeze(1).repeat(1, tgt_len, 1) of a B x P flag tensor, used as a
\* mask: B x tgt_len x P
RepeatPad(pad, tgt_len) ==
    [shape |-> <<pad.shape[1], tgt_len, pad.shape[2]>>,
     data |-> [b \in 1..pad.shape[1] |-> [q \in 1..tgt_len |->
                  [k \in 1..pad.shape[2] |-> pad.data[b][k] # 0]]]]

\* Lines 107-111: torch.gt(tgt_mask + upper_triangle[:tgt_len, :tgt_len], 0)
\* in uint8 arithmetic; the sum broadcasts B x tgt_len x P with m x m, where
\* m is what the slice of the 1000 x 1000 table yields.
DecoderMask(tgt_pad, tgt_len) ==
    LET P == tgt_pad.shape[2]
        m == Min(tgt_len, MaskTableSize)
    IN  IF ~(Broadcastable(tgt_len, m) /\ Broadcastable(P, m))
        THEN Raise("RuntimeError: tgt_mask + upper_triangle")
        ELSE Ok([shape |-> <<tgt_pad.shape[1], BroadcastSize(tgt_len, m),
                             BroadcastSize(P, m)>>,
                 data |-> [b \in 1..tgt_pad.shape[1] |->
                     [q \in 1..BroadcastSize(tgt_len, m) |->
                         [k \in 1..BroadcastSize(P, m) |->
                             (tgt_pad.data[b][BIdx(P, k)]
                                + UpperTriangle(BIdx(m, q) - 1, BIdx(m, k) - 1))
                               % ByteModulus > 0]]]])

\* previous[:, i]: layer i's entry of a B x layers x K x D cache
CacheLayer(previous, i) ==
    IF i >= previous.shape[2]
    THEN Raise("IndexError: previous[:, i]")
    ELSE Ok([shape |-> <<previous.shape[1], previous.shape[3], previous.shape[4]>>,
             data |-> [b \in 1..previous.shape[1] |-> previous.data[b][i + 1]]])

\* previous[:, i] is a view: what is left in it is left in the cache
ThroughView(previous, i, view) ==
    IF previous = None THEN None
    ELSE [previous EXCEPT !.data =
            [b \in 1..Len(@) |-> [@[b] EXCEPT ![i + 1] = view.data[b]]]]

\* torch.stack(saved_inputs, dim=1): a new B x layers x K x D tensor
TorchStack(saved_inputs) ==
    IF Len(saved_inputs) = 0
    THEN Raise("RuntimeError: torch.stack of an empty list")
    ELSE LET first == saved_inputs[1]
         IN  Ok([shape |-> <<first.shape[1], Len(saved_inputs), first.shape[2],
                             first.shape[3]>>,
                 data |-> [b \in 1..first.shape[1] |->
                     [i \in 1..Len(saved_inputs) |-> saved_inputs[i].data[b]]]])

\* SavedInput with the bug of saving the layer's output
SavedOutput(layerResult) == layerResult.x

\* What one pass of the loop appends to saved_inputs
SavedInput(layerResult) == layerResult.all_input

\* Lines 112-119: the loop over self.layers from layer i on, then the stack.
\* tgt_mask is the mask of line 111; line 115 replaces it by None whenever
\* a cache is passed.
RECURSIVE DecoderLayers(_, _, _, _, _, _, _)
DecoderLayers(i, output, saved_inputs, enc_out, src_mask, tgt_mask, previous) ==
    IF i = NumLayers
    THEN Then([st \in {TorchStack(saved_inputs)} |->
            IF st.err # "none" THEN Leaving(st, previous)
            ELSE Leaving(Ok([output |-> output, cache |-> st.val]), previous)])
    ELSE
    Then([prev_layer \in {IF previous = None THEN Ok(None)
                          ELSE CacheLayer(previous, i)} |->
    IF prev_layer.err # "none" THEN Leaving(prev_layer, previous) ELSE
    Then([r \in {DecoderLayerForward(i, output, enc_out, src_mask,
                     IF previous = None THEN tgt_mask ELSE None,
                     prev_layer.val)} |->
    Then([left \in {ThroughView(previous, i, r.previous)} |->
    IF r.err # "none" THEN Leaving(Raise(r.err), left) ELSE
    Then([saved \in {Append(saved_inputs, SavedInput(r.val))} |->
        DecoderLayers(i + 1, r.val.x, saved, enc_out, src_mask, tgt_mask, left)
    ])])])])

\* Decoder.forward(tgt, enc_out, src_pad, tgt_pad, previous, timestep)
DecoderForward(tgt, enc_out, src_pad, tgt_pad, previous, timestep) ==
    Then([emb \in {EmbeddingForward(tgt, timestep, DecoderConfig.hidden_size)} |->
    IF emb.err # "none" THEN Leaving(emb, previous) ELSE
    Then([src_mask \in {RepeatPad(src_pad, tgt.shape[2])} |->
    Then([tgt_mask \in {DecoderMask(tgt_pad, tgt.shape[2])} |->
    IF tgt_mask.err # "none" THEN Leaving(tgt_mask, previous)
    ELSE DecoderLayers(0, emb.val, <<>>, enc_out, src_mask, tgt_mask.val,
                       previous)
    ])])])

(***************************************************************************)
(* The callers.  The core keeps no state between calls: the state is what  *)
(* a caller holds.                                                         *)
(*   att   the MultiHeadedAttention instance last constructed              *)
(*   call  the arguments of the last call (a cache argument is recorded    *)
(*         both as the caller's object, "ref", and as its value at the     *)
(*         time of the call, "previous")                                   *)
(*   ret   what that call returned or raised                               *)
(*   heap  the cache tensors the caller holds, by object identity          *)
(*   sess  the generation the caller is running: the cache object it       *)
(*         threads and the tokens that cache covers                        *)
(***************************************************************************)
Vocab == {1, 2}

Flags == {0, 1}

\* the target sequences of a batch: every row holds the same tokens
TokenBatch(B, toks) ==
    [shape |-> <<B, Len(toks)>>, data |-> [b \in 1..B |-> toks]]

\* the padding flags of a batch: row b is the first row rotated by b - 1
PadBatch(B, pads) ==
    [shape |-> <<B, Len(pads)>>,
     data |-> [b \in 1..B |->
                [k \in 1..Len(pads) |-> pads[((k + b - 2) % Len(pads)) + 1]]]]

\* the encoder output of the source batch and its padding flags (the last
\* source position of every row is padding when there is more than one)
EncOut(B) ==
    [shape |-> <<B, SrcLen, DecoderConfig.hidden_size>>,
     data |-> [b \in 1..B |-> [k \in 1..SrcLen |-> [enc |-> <<b, k>>]]]]

SrcPad(B) ==
    [shape |-> <<B, SrcLen>>,
     data |-> [b \in 1..B |->
                [k \in 1..SrcLen |-> IF k = SrcLen /\ k > 1 THEN 1 ELSE 0]]]

\* a cache tensor a caller makes up: B x layers x K x D, every row a filler
FilledCache(B, layers, K) ==
    [shape |-> <<B, layers, K, DecoderConfig.hidden_size>>,
     data |-> [b \in 1..B |-> [i \in 1..layers |-> [k \in 1..K |-> [fill |-> 0]]]]]

NoCall == [op |-> "none"]

NoSess == [ref |-> 0, B |-> 0, fed |-> <<>>, single |-> FALSE]

\* an object identity the caller does not hold
FreshRef(h) == CHOOSE r \in 1..(Cardinality(DOMAIN h) + 1) : r \notin DOMAIN h

Init ==
    /\ att = Ok(DecoderAtt)
    /\ call = NoCall
    /\ ret = [err |-> "none"]
    /\ heap = <<>>
    /\ sess = NoSess

\* A Decoder.forward call by a caller holding the objects h, with the cache
\* object ref (0: previous=None): the call and its result are recorded, the
\* returned cache is a new object, and the caller's cache object holds
\* what the call left in it.
Forward(op, tgt, tgt_pad, ref, h, timestep) ==
    \E previous \in {IF ref = 0 THEN None ELSE h[ref]},
       enc_out \in {EncOut(tgt.shape[1])}, src_pad \in {SrcPad(tgt.shape[1])} :
      \E r \in {DecoderForward(tgt, enc_out, src_pad, tgt_pad, previous, timestep)} :
        /\ call' = [op |-> op, tgt |-> tgt, tgt_pad |-> tgt_pad, ref |-> ref,
                    previous |-> previous, timestep |-> timestep,
                    tgt_mask |-> DecoderMask(tgt_pad, tgt.shape[2])]
        /\ IF r.err = "none"
           THEN /\ ret' = [err |-> "none", out |-> r.val.output,
                           ref |-> FreshRef(h)]
                /\ heap' = (IF ref = 0 THEN <<>> ELSE (ref :> r.previous))
                             @@ (FreshRef(h) :> r.val.cache)
           ELSE /\ ret' = [err |-> r.err, ref |-> 0]
                /\ heap' = IF ref = 0 THEN <<>> ELSE (ref :> r.previous)

\* The caller starts a generation: Decoder.forward without a cache over L
\* target tokens (L = 1: the first step of step-by-step decoding).
ForwardFull ==
    /\ call = NoCall
    /\ \E B \in 1..MaxBatch, L \in 1..MaxTgtLen :
        \E toks \in [1..L -> Vocab], pads \in [1..L -> Flags] :
          \E tgt \in {TokenBatch(B, toks)}, tgt_pad \in {PadBatch(B, pads)} :
            /\ Forward("forward", tgt, tgt_pad, 0, heap, 0)
            /\ sess' = IF ret'.err = "none"
                       THEN [ref |-> ret'.ref, B |-> B, fed |-> toks,
                             single |-> (L = 1 /\ pads[1] = 0)]
                       ELSE NoSess
    /\ UNCHANGED att

\* One more step of the generation: a single new token, the cache the
\* caller holds, timestep = the number of tokens already fed.
Step ==
    /\ sess.ref # 0
    /\ Len(sess.fed) < MaxTgtLen + MaxSteps
    /\ \E tok \in Vocab :
        \E tgt \in {TokenBatch(sess.B, <<tok>>)}, tgt_pad \in {PadBatch(sess.B, <<0>>)} :
          /\ Forward("step", tgt, tgt_pad, sess.ref, heap, Len(sess.fed))
          /\ sess' = IF ret'.err = "none"
                     THEN [sess EXCEPT !.ref = ret'.ref, !.fed = Append(@, tok)]
                     ELSE sess
    /\ UNCHANGED att

\* The shapes of the caches a caller hands in without having received them
\* from the decoder: any batch size, one layer entry too few or too many,
\* and lengths around the size of the causal-mask table.
CacheLayerCounts == {NumLayers - 1, NumLayers, NumLayers + 1}

CacheLengths == {1, 2, MaskTableSize - 1, MaskTableSize, MaskTableSize + 1}

\* A single-token call with such a cache, timestep = the cache's length.
ForwardWithCache ==
    /\ call = NoCall
    /\ \E B \in 1..MaxBatch, Bc \in 1..MaxBatch, layers \in CacheLayerCounts,
          K \in CacheLengths, tok \in Vocab :
        \E tgt \in {TokenBatch(B, <<tok>>)}, tgt_pad \in {PadBatch(B, <<0>>)},
           h \in {(1 :> FilledCache(Bc, layers, K))} :
          Forward("cache", tgt, tgt_pad, 1, h, K)
    /\ sess' = NoSess
    /\ UNCHANGED att

\* A call without a cache over a target longer than the tables.
LongLengths == {MaskTableSize + 1, PeMaxLen, PeMaxLen + 1}

ForwardLong ==
    /\ call = NoCall
    /\ \E L \in LongLengths :
        \E toks \in {[p \in 1..L |-> 1]}, pads \in {[p \in 1..L |-> 0]} :
          \E tgt \in {TokenBatch(1, toks)}, tgt_pad \in {PadBatch(1, pads)} :
            Forward("long", tgt, tgt_pad, 0, heap, 0)
    /\ sess' = NoSess
    /\ UNCHANGED att

\* The caller drops what it holds; the core has nothing to clean up.
Finish ==
    /\ call # NoCall
    /\ call' = NoCall
    /\ ret' = [err |-> "none"]
    /\ heap' = <<>>
    /\ sess' = NoSess
    /\ UNCHANGED att

Next == ForwardFull \/ Step \/ ForwardWithCache \/ ForwardLong \/ Finish

Spec == Init /\ [][Next]_vars

(***************************************************************************)
(* A caller of Embedding.forward alone                                     *)
(***************************************************************************)
\* timesteps at the start and around the end of the positional table
EmbTimesteps == {0, 1, PeMaxLen - 2, PeMaxLen - 1, PeMaxLen, PeMaxLen + 1}

Embed ==
    /\ call = NoCall
    /\ \E B \in 1..MaxBatch, L \in 1..MaxTgtLen, timestep \in EmbTimesteps :
        \E toks \in [1..L -> Vocab] :
          \E x \in {TokenBatch(B, toks)} :
            \E r \in {EmbeddingForward(x, timestep, DecoderConfig.hidden_size)} :
              /\ call' = [op |-> "embed", x |-> x, timestep |-> timestep]
              /\ ret' = IF r.err = "none" THEN [err |-> "none", out |-> r.val]
                        ELSE [err |-> r.err]
    /\ UNCHANGED <<att, heap, sess>>

NextEmb == Embed \/ Finish

SpecEmb == Init /\ [][NextEmb]_vars

(***************************************************************************)
(* A caller that constructs a MultiHeadedAttention and calls it alone      *)
(***************************************************************************)
NoAtt == [err |-> "not constructed"]

InitAttn ==
    /\ att = NoAtt
    /\ call = NoCall
    /\ ret = [err |-> "none"]
    /\ heap = <<>>
    /\ sess = NoSess

\* MultiHeadedAttention(head_count, model_dim)
Construct ==
    /\ att = NoAtt
    /\ \E head_count \in 0..MaxHeads, model_dim \in 1..MaxDim :
          att' = MHAInit(head_count, model_dim)
    /\ UNCHANGED <<call, ret, heap, sess>>

\* a 1 x L x D tensor of distinct rows
Rows(name, L, D) ==
    [shape |-> <<1, L, D>>, data |-> <<[p \in 1..L |-> [row |-> <<name, p>>]]>>]

\* a 1 x Lq x Lk mask
MaskOf(m, Lq, Lk) == [shape |-> <<1, Lq, Lk>>, data |-> <<m>>]

AttnCall(query, memory, mask) ==
    \E r \in {MHAForward(att.val, "attn", query, memory, mask)} :
      /\ call' = [op |-> "attend", query |-> query, memory |-> memory,
                  mask |-> mask]
      /\ ret' = IF r.err = "none" THEN [err |-> "none", out |-> r.val]
                ELSE [err |-> r.err]

\* forward(query, memory, mask) with a memory
AttendMemory ==
    /\ att.err = "none"
    /\ call = NoCall
    /\ \E Lq \in 1..MaxQLen, Lk \in 1..MaxKLen :
        \E m \in [1..Lq -> [1..Lk -> BOOLEAN]] :
          \E query \in {Rows("query", Lq, att.val.model_dim)},
             memory \in {Rows("memory", Lk, att.val.model_dim)},
             mask \in {MaskOf(m, Lq, Lk)} :
            AttnCall(query, memory, mask)
    /\ UNCHANGED <<att, heap, sess>>

\* forward(query, None, mask): the fused projection of the query
AttendSelf ==
    /\ att.err = "none"
    /\ call = NoCall
    /\ \E Lq \in 1..MaxQLen :
        \E m \in [1..Lq -> [1..Lq -> BOOLEAN]] :
          \E query \in {Rows("query", Lq, att.val.model_dim)},
             mask \in {MaskOf(m, Lq, Lq)} :
            AttnCall(query, None, mask)
    /\ UNCHANGED <<att, heap, sess>>

\* The caller drops the instance (or the failed construction).
Destroy ==
    /\ att # NoAtt
    /\ call = NoCall
    /\ att' = NoAtt
    /\ UNCHANGED <<call, ret, heap, sess>>

NextAttn == Construct \/ AttendMemory \/ AttendSelf \/ Finish \/ Destroy

SpecAttn == InitAttn /\ [][NextAttn]_vars

(***************************************************************************)
(* The claims                                                              *)
(***************************************************************************)
Hidden == DecoderConfig.hidden_size

DecoderCall == call.op \in {"forward", "step", "cache", "long"}

\* the number of steps of the cache passed to the last call
PassedSteps == IF call.previous = None THEN 0 ELSE call.previous.shape[3]

\* The errors the code raises because a length exceeds a precomputed table,
\* and those it raises because of the shape of the cache.
OverflowErrors ==
    {"RuntimeError: tgt_mask + upper_triangle", "RuntimeError: embedding + pe slice"}

CacheShapeErrors ==
    {"IndexError: previous[:, i]", "RuntimeError: torch.cat((previous, x), dim=1)"}

\* C1: step-by-step decoding of [t0, t1, t2] (batch of one, no padding, the
\* first call without a cache, each later call with the cache the preceding
\* call returned and timestep = tokens already fed): every call returns,
\* and the third call's hidden state equals the last row of the hidden
\* states of one call over all three tokens.
C1_IncrementalEqualsFull ==
    (sess.single /\ sess.B = 1 /\ call.op \in {"forward", "step"}) =>
        /\ ret.err = "none"
        /\ Len(sess.fed) = 3 =>
             ret.out.data[1][1] =
               DecoderForward(TokenBatch(1, sess.fed), EncOut(1), SrcPad(1),
                              PadBatch(1, <<0, 0, 0>>), None, 0).val.output.data[1][3]

\* C2: in a generation of single-token calls started without a cache, every
\* call returns; given a cache of k steps it returns a cache of k + 1
\* steps with num_layers entries and an output of one step.
C2_CacheGrowsByOne ==
    (sess.single /\ call.op \in {"forward", "step"}) =>
        /\ ret.err = "none"
        /\ heap[ret.ref].shape
             = <<call.tgt.shape[1], NumLayers, PassedSteps + 1, Hidden>>
        /\ ret.out.shape = <<call.tgt.shape[1], 1, Hidden>>

\* the value rows of the memory of the last attention call, the row at key
\* position j replaced by another vector
PerturbedValues(vs, j) ==
    <<[k \in 1..Len(vs[1]) |-> IF k = j THEN Proj("v", [row |-> "perturbed"])
                               ELSE vs[1][k]]>>

\* C3: in every attention call that returns, a key position masked for all
\* queries does not influence the output: with its value vector replaced,
\* everything else fixed, the output is the same.
C3_MaskedKeyHasNoInfluence ==
    (call.op = "attend" /\ ret.err = "none") =>
        LET mem == IF call.memory = None THEN call.query ELSE call.memory
            path == IF call.memory = None THEN "linear_qkv" ELSE "linear_q,linear_kv"
            ks == <<[k \in 1..mem.shape[2] |-> Proj("k", mem.data[1][k])]>>
            vs == <<[k \in 1..mem.shape[2] |-> Proj("v", mem.data[1][k])]>>
        IN  \A j \in 1..mem.shape[2] :
              (\A q \in 1..call.query.shape[2] : call.mask.data[1][q][j]) =>
                 Attend("attn", path, call.query.data, ks, PerturbedValues(vs, j),
                        call.mask) = ret.out.data

\* C4: the self-attention mask of a call without a cache over L <= 1000
\* tokens is B x L x L, and entry (b, q, k), 0 <= q, k < L, is true exactly
\* when k > q or tgt_pad[b][k] is set.
C4_MaskIsCausalOrPadding ==
    (DecoderCall /\ call.previous = None /\ call.tgt.shape[2] <= MaskTableSize) =>
        LET L == call.tgt.shape[2]
            B == call.tgt.shape[1]
        IN  /\ call.tgt_mask.err = "none"
            /\ call.tgt_mask.val.shape = <<B, L, L>>
            /\ \A b \in 1..B, q \in 0..(L - 1), k \in 0..(L - 1) :
                 call.tgt_mask.val.data[b][q + 1][k + 1]
                   <=> (k > q \/ call.tgt_pad.data[b][k + 1] = 1)

\* C4 witness: L = 4 without padding, (query 1, key 2) is masked, (query 2,
\* key 1) and the diagonal are not.
C4_Witness ==
    /\ call.op = "forward"
    /\ call.tgt.shape[2] = 4
    /\ call.tgt_pad.data[1] = <<0, 0, 0, 0>>
    /\ call.tgt_mask.val.data[1][2][3]
    /\ ~call.tgt_mask.val.data[1][3][2]
    /\ ~call.tgt_mask.val.data[1][2][2]

LayerInput(c, i) ==
    [shape |-> <<c.shape[1], c.shape[3] - PassedSteps, c.shape[4]>>,
     data |-> [b \in 1..c.shape[1] |->
                SubSeq(c.data[b][i + 1], PassedSteps + 1, c.shape[3])]]

\* C10: in every decoder call that returns, the returned cache has one
\* entry per layer; layer 0's entry ends with the embedding output, layer
\* i + 1's entry ends with the output of layer i applied to what layer i's
\* entry ends with, the returned output is the last layer's output, and
\* every entry starts with the entry passed in.
C10_CacheHoldsLayerInputs ==
    (DecoderCall /\ ret.err = "none") =>
        LET c == heap[ret.ref]
            B == call.tgt.shape[1]
            src_mask == RepeatPad(SrcPad(B), call.tgt.shape[2])
            mask == IF call.previous = None THEN call.tgt_mask.val ELSE None
            Out(i) == DecoderLayerForward(i, LayerInput(c, i), EncOut(B), src_mask,
                          mask, IF call.previous = None THEN None
                                ELSE CacheLayer(call.previous, i).val).val.x
        IN  /\ c.shape[2] = NumLayers
            /\ LayerInput(c, 0)
                 = EmbeddingForward(call.tgt, call.timestep, Hidden).val
            /\ \A i \in 0..(NumLayers - 1) :
                 /\ IF i < NumLayers - 1 THEN LayerInput(c, i + 1) = Out(i)
                    ELSE ret.out = Out(i)
                 /\ call.previous # None =>
                      \A b \in 1..B : SubSeq(c.data[b][i + 1], 1, PassedSteps)
                                        = call.previous.data[b][i + 1]

\* C10 witness: a call over at least two tokens returned a cache with at
\* least two layer entries, the second differing from the first.
C10_Witness ==
    /\ call.op = "forward"
    /\ ret.err = "none"
    /\ call.tgt.shape[2] >= 2
    /\ heap[ret.ref].shape[2] >= 2
    /\ heap[ret.ref].data[1][2] # heap[ret.ref].data[1][1]

\* C6: every MultiHeadedAttention that was constructed has model_dim
\* divisible by head_count and head_count * dim_per_head = model_dim.
C6_ConstructedIsDivisible ==
    (att.err = "none") =>
        /\ att.val.model_dim % att.val.head_count = 0
        /\ att.val.head_count * att.val.dim_per_head = att.val.model_dim

\* C7: Embedding.forward with timestep + sequence_length beyond the
\* positional table raises.
C7_OverflowRaises ==
    (call.op = "embed" /\ call.timestep + call.x.shape[2] > PeMaxLen) =>
        ret.err \in OverflowErrors

\* C8: a decoder call with a cache whose number of layer entries differs
\* from num_layers, or whose batch size differs from the input's, raises
\* an error about the cache.
C8_BadCacheRaises ==
    (DecoderCall /\ call.previous # None
       /\ (call.previous.shape[2] # NumLayers
             \/ call.previous.shape[1] # call.tgt.shape[1])) =>
        ret.err \in CacheShapeErrors

\* C9: a decoder call whose sequence (the target without a cache, the
\* cache plus the new step with one) is longer than the causal-mask table
\* raises a length error.
C9_LongSequenceRaises ==
    (DecoderCall /\ PassedSteps + call.tgt.shape[2] > MaskTableSize) =>
        ret.err \in OverflowErrors

====
